---- MODULE Spec2Model ----
(***************************************************************************)
(* PyMtgFall: the request / sanitize / pagination pipeline of              *)
(* pymtgfall/connection.py (class ScryfallConnection).                     *)
(*                                                                         *)
(* JSON values are tagged records [t, v]:                                  *)
(*   t = "num" | "bool" | "str" | "url"   scalars                          *)
(*   t = "list"   v is a sequence of JSON values  (Python list)            *)
(*   t = "map"    v is a function from keys to JSON values (Python dict)   *)
(***************************************************************************)
EXTENDS Integers, Sequences, FiniteSets, TLC

VARIABLES
    pc,          \* position of the caller
    data,        \* the object the caller passed to sanitize_data (its current contents)
    data0,       \* history: the contents of that object when the call was made
    sanitized,   \* value returned by sanitize_data
    resanitized, \* value returned by a second sanitize_data applied to the first result
    server,      \* the remote API: what each page of the list holds, which page fails
    return_data, \* the return_data argument of the fetch (Str("data") or None)
    task,        \* position of the fetch: "start", "sleeping", "sending", "returned", "raised"
    in_loop,     \* TRUE once pagination_list has entered its while loop
    url,         \* the URL handed to client.get by the request in progress
    returnable,  \* pagination_list's accumulator (the sanitized first page)
    has_more,    \* pagination_list's loop flag
    result,      \* value returned by the fetch
    err,         \* exception the fetch raised, "none" while there is none
    trace,       \* history: the events of the fetch, in order
    call,        \* the endpoint method the caller invoked, with its arguments
    record,      \* outcome of building the typed record from the sanitized payload
    conn,        \* the ScryfallConnection's attributes: url, platforms, sleep
    fetches      \* the local variables of each of several concurrent fetches

sanvars == <<pc, data, data0, sanitized, resanitized>>

fetchvars == <<server, return_data, task, in_loop, url, returnable, has_more, result, err, trace>>

callvars == <<call, conn>>

decvars == <<record>>

concvars == <<fetches>>

vars == <<pc, data, data0, sanitized, resanitized,
          server, return_data, task, in_loop, url, returnable, has_more, result, err, trace,
          call, record, conn, fetches>>

-----------------------------------------------------------------------------
(* Bounds of the model *)

MaxNum == 2     \* scalars are the numbers 1..MaxNum
MaxKeys == 2    \* keys per generated flat map
MaxLen == 2     \* elements per generated flat list
MaxPages == 3   \* pages the remote list has
MaxData == 2    \* elements of each page's data collection
MaxRequests == 5 \* requests one fetch may issue before the model stops following it

-----------------------------------------------------------------------------
(* JSON values: a record of a type tag t and a payload v.  TLC orders records
   field by field in the order the field names first occur, so t is written
   before v everywhere and values of different types compare by their tag. *)

Num(n) == [t |-> "num", v |-> n]
Bool(b) == [t |-> "bool", v |-> b]
Str(s) == [t |-> "str", v |-> s]
List(s) == [t |-> "list", v |-> s]
Map(f) == [t |-> "map", v |-> f]
Url(u) == [t |-> "url", v |-> u]
None == [t |-> "none", v |-> 0]

isinstance_list(x) == x.t = "list"
isinstance_dict(x) == x.t = "map"

-----------------------------------------------------------------------------
(* URLs.  A URL is a sequence of tokens: a host prefix followed by a path.  *)

Tok(seg, page) == [seg |-> seg, page |-> page]

\* self.url, connection.py:28
self_url == Tok("https://api.scryfall.com/", 0)
\* some other absolute prefix a link may carry
other_host == Tok("https://mirror.example/", 0)
Hosts == {self_url, other_host}

\* a "/" written in front of a path
Slash == Tok("/", 0)

\* s.replace(old, ""): every occurrence of `old` is removed
str_replace(s, old) == SelectSeq(s, LAMBDA tk : tk # old)

\* the path of page p of the set list
sets_path(p) == Tok("sets", p)

\* self.platforms, connection.py:29
self_platforms == {"multiverse", "mtgo", "arena", "tcgplayer", "cardmarket"}

\* self.sleep, connection.py:30, in milliseconds
self_sleep == 500

\* ScryfallConnection.__init__, connection.py:27-30
ScryfallConnection == [url |-> self_url, platforms |-> self_platforms, sleep |-> self_sleep]

-----------------------------------------------------------------------------
(* sanitize_data, connection.py:111-129 *)

\* The slip `data.setdefault(to, data.pop(from))`: an entry `to` that is
\* already there is kept.
dict_pop_keep_existing(d, from, to) ==
    [k \in (DOMAIN d \ {from}) \cup {to} |->
        IF k = to /\ to \notin DOMAIN d THEN d[from] ELSE d[k]]

\* data[to] = data.pop(from): the entry is removed and stored under `to`,
\* overwriting an entry `to` that was already there.
dict_pop_into(d, from, to) ==
    [k \in (DOMAIN d \ {from}) \cup {to} |-> IF k = to THEN d[from] ELSE d[k]]

\* The plausible slip `data[to] = data[from]` (copy, no pop).
dict_rename_nopop(d) ==
    LET d1 == IF "id" \in DOMAIN d
              THEN [k \in DOMAIN d \cup {"api_id"} |-> IF k = "api_id" THEN d["id"] ELSE d[k]]
              ELSE d
    IN IF "object" \in DOMAIN d1
       THEN [k \in DOMAIN d1 \cup {"obj"} |-> IF k = "obj" THEN d1["object"] ELSE d1[k]]
       ELSE d1

\* The plausible slip `data["api_id"] = data.pop("id", None)` without the `if`.
dict_rename_always(d) ==
    LET d1 == [k \in (DOMAIN d \ {"id"}) \cup {"api_id"} |->
                 IF k = "api_id"
                 THEN (IF "id" \in DOMAIN d THEN d["id"] ELSE None)
                 ELSE d[k]]
    IN IF "object" \in DOMAIN d1 THEN dict_pop_into(d1, "object", "obj") ELSE d1

\* lines 121-124: the two in-place renames of the dict `data`.
dict_rename(d) ==
    LET d1 == IF "id" \in DOMAIN d THEN dict_pop_into(d, "id", "api_id") ELSE d
    IN IF "object" \in DOMAIN d1 THEN dict_pop_into(d1, "object", "obj") ELSE d1

\* sanitize_data(data) yields two things: `ret`, the value returned, and `arg`,
\* the contents of the argument object after the call (the dict branch renames
\* the keys of `data` itself before it copies, and recurses into the values it
\* holds, so every dict it visits is changed in place).
RECURSIVE sanitize_data(_)
sanitize_data(d) ==
    IF isinstance_list(d) THEN
        LET r == [i \in DOMAIN d.v |->
                    IF isinstance_dict(d.v[i])
                    THEN sanitize_data(d.v[i])
                    ELSE [ret |-> d.v[i], arg |-> d.v[i]]]
        IN [ret |-> List([i \in DOMAIN d.v |-> r[i].ret]),
            arg |-> List([i \in DOMAIN d.v |-> r[i].arg])]
    ELSE IF isinstance_dict(d) THEN
        LET m == dict_rename(d.v)
            r == [k \in DOMAIN m |-> sanitize_data(m[k])]
        IN [ret |-> Map([k \in DOMAIN m |-> r[k].ret]),
            arg |-> Map([k \in DOMAIN m |-> r[k].arg])]
    ELSE [ret |-> d, arg |-> d]

-----------------------------------------------------------------------------
(* Inputs of the sanitizer: JSON values up to three containers deep *)

Keys == {"id", "object", "api_id", "obj", "name"}
Scalars == {Num(n) : n \in 1..MaxNum}

MapsOver(V) ==
    UNION {{Map(f) : f \in [S -> V]} : S \in {T \in SUBSET Keys : Cardinality(T) <= MaxKeys}}
ListsOver(V) ==
    UNION {{List(s) : s \in [1..n -> V]} : n \in 0..MaxLen}

FlatMaps == MapsOver(Scalars)
Flat == FlatMaps \cup ListsOver(Scalars)

\* the smallest containers: one entry, one element
UnitMaps == {Map([k \in {key} |-> s]) : key \in Keys, s \in Scalars}
Unit == UnitMaps \cup {List(<<s>>) : s \in Scalars}

\* one more level of nesting around the values of V
Wrap(V) ==
    {Map([k \in {key} |-> x]) : key \in Keys, x \in V} \cup {List(<<x>>) : x \in V}

\* a list mixing scalars and maps
Mixed ==
    {List(<<s, m>>) : s \in Scalars, m \in FlatMaps}
      \cup {List(<<m, s>>) : s \in Scalars, m \in FlatMaps}

\* a map with one nested and one scalar entry
Siblings ==
    {Map([k \in {k1, k2} |-> IF k = k1 THEN x ELSE s]) :
        k1 \in Keys, k2 \in Keys \ {"name"}, x \in UnitMaps, s \in Scalars}

\* maps that hold a key to rename together with the key it is renamed to
Colliding ==
    UNION {{Map(f) : f \in [S -> Scalars]} :
             S \in {{"id", "api_id", "name"}, {"object", "obj", "name"},
                    {"id", "api_id", "object", "obj"}}}

JsonInputs ==
    Scalars \cup Flat \cup Mixed \cup Wrap(Flat) \cup Wrap(Wrap(Unit)) \cup Siblings
      \cup Colliding

-----------------------------------------------------------------------------
(* The sanitizer on its own: a caller holding `data` calls sanitize_data     *)
(* and then calls it again on the value it got back.                         *)

SanInit ==
    /\ data \in JsonInputs
    /\ data0 = data
    /\ pc = "idle"
    /\ sanitized = None
    /\ resanitized = None
    /\ server = None
    /\ return_data = None
    /\ task = "none"
    /\ in_loop = FALSE
    /\ url = <<>>
    /\ returnable = None
    /\ has_more = None
    /\ result = None
    /\ err = "none"
    /\ trace = <<>>
    /\ call = [ep |-> "none", args |-> <<>>]
    /\ conn = ScryfallConnection
    /\ record = None
    /\ fetches = <<>>

CallSanitize ==
    /\ pc = "idle"
    /\ sanitized' = sanitize_data(data).ret
    /\ data' = sanitize_data(data).arg
    /\ pc' = "sanitized"
    /\ UNCHANGED <<data0, resanitized>>
    /\ UNCHANGED <<fetchvars, callvars, decvars, concvars>>

CallSanitizeAgain ==
    /\ pc = "sanitized"
    /\ resanitized' = sanitize_data(sanitized).ret
    /\ sanitized' = sanitize_data(sanitized).arg
    /\ pc' = "resanitized"
    /\ UNCHANGED <<data, data0>>
    /\ UNCHANGED <<fetchvars, callvars, decvars, concvars>>

SanNext == CallSanitize \/ CallSanitizeAgain

SanSpec == SanInit /\ [][SanNext]_vars

-----------------------------------------------------------------------------
(* Properties of the sanitizer *)

\* some map inside x, at any depth, has a key "id" or "object"
RECURSIVE HasReservedKey(_)
HasReservedKey(x) ==
    IF isinstance_list(x) THEN \E i \in DOMAIN x.v : HasReservedKey(x.v[i])
    ELSE IF isinstance_dict(x) THEN
        \/ "id" \in DOMAIN x.v
        \/ "object" \in DOMAIN x.v
        \/ \E k \in DOMAIN x.v : HasReservedKey(x.v[k])
    ELSE FALSE

\* the keys a map has after "id" -> "api_id" and "object" -> "obj"
RenamedKeys(m) ==
    (DOMAIN m \ {"id", "object"})
      \cup (IF "id" \in DOMAIN m THEN {"api_id"} ELSE {})
      \cup (IF "object" \in DOMAIN m THEN {"obj"} ELSE {})

\* the keys of m that are neither renamed nor the target of a rename
OtherKeys(m) ==
    DOMAIN m \ ({"id", "object"}
                  \cup (IF "id" \in DOMAIN m THEN {"api_id"} ELSE {})
                  \cup (IF "object" \in DOMAIN m THEN {"obj"} ELSE {}))

\* `out` is `in` with every map renamed as the sanitizer's contract says.
\* With verbatim = TRUE the value moved from "id"/"object" must be the
\* original value; with verbatim = FALSE it is renamed like every other value.
RECURSIVE Conforms(_, _, _)
Conforms(in, out, verbatim) ==
    IF isinstance_list(in) THEN
        /\ isinstance_list(out)
        /\ Len(out.v) = Len(in.v)
        /\ \A i \in DOMAIN in.v :
              IF isinstance_dict(in.v[i])
              THEN Conforms(in.v[i], out.v[i], verbatim)
              ELSE out.v[i] = in.v[i]
    ELSE IF isinstance_dict(in) THEN
        /\ isinstance_dict(out)
        /\ DOMAIN out.v = RenamedKeys(in.v)
        /\ "id" \in DOMAIN in.v =>
              IF verbatim THEN out.v["api_id"] = in.v["id"]
              ELSE Conforms(in.v["id"], out.v["api_id"], verbatim)
        /\ "object" \in DOMAIN in.v =>
              IF verbatim THEN out.v["obj"] = in.v["object"]
              ELSE Conforms(in.v["object"], out.v["obj"], verbatim)
        /\ \A k \in OtherKeys(in.v) : Conforms(in.v[k], out.v[k], verbatim)
    ELSE out = in

\* a map, or a sequence whose elements are maps and scalars
MapOrFlatSequence(x) ==
    \/ isinstance_dict(x)
    \/ isinstance_list(x) /\ \A i \in DOMAIN x.v : ~isinstance_list(x.v[i])

\* C7: after sanitize_data(v) no map anywhere in the result, at any nesting
\* depth (maps inside sequences inside sequences included), has a key "id"
\* or "object".
C7_NoReservedKeyInResult ==
    pc # "idle" => ~HasReservedKey(sanitized)

\* C8 as stated: for a map, or a sequence of maps and scalars, the result has
\* the same shape, "id"/"object" entries appear under "api_id"/"obj" with the
\* original value, other keys keep their recursively sanitized value, non-map
\* sequence elements are unchanged in place, length and order are preserved.
C8_RenamedWithOriginalValue ==
    (pc # "idle" /\ MapOrFlatSequence(data0)) => Conforms(data0, sanitized, TRUE)

\* C8 amended: as C8, except that the value moved from "id"/"object" to
\* "api_id"/"obj" is itself recursively sanitized (it is the original value
\* whenever that value contains no map with a reserved key).
C8_RenamedWithSanitizedValue ==
    (pc # "idle" /\ MapOrFlatSequence(data0)) => Conforms(data0, sanitized, FALSE)

C8_Witness ==
    /\ pc = "sanitized"
    /\ isinstance_dict(data0)
    /\ "id" \in DOMAIN data0.v
    /\ "name" \in DOMAIN data0.v
    /\ isinstance_dict(data0.v["name"])
    /\ "object" \in DOMAIN data0.v["name"].v
    /\ sanitized.v["api_id"] = data0.v["id"]

\* C9: for every JSON value x with no map holding a key "id" or "object" at
\* any depth, sanitize_data(x) = x; and sanitize_data(sanitize_data(y)) =
\* sanitize_data(y) whenever sanitize_data(y) holds no such key.
C9_CleanDataUnchanged ==
    /\ (pc # "idle" /\ ~HasReservedKey(data0)) => sanitized = data0
    /\ (pc = "resanitized" /\ ~HasReservedKey(sanitized)) => resanitized = sanitized

C9_Witness ==
    /\ pc = "resanitized"
    /\ ~HasReservedKey(data0)
    /\ isinstance_list(data0)
    /\ \E i \in DOMAIN data0.v :
          isinstance_dict(data0.v[i]) /\ DOMAIN data0.v[i].v # {}

\* the map holds the key `from` and already holds the key `to`
Collides(m, from, to) == from \in DOMAIN m /\ to \in DOMAIN m

\* C22 as stated: when a map holds both "id" and "api_id" (or both "object"
\* and "obj"), the result has one "api_id" (resp. "obj") entry holding the
\* value that was under "id" (resp. "object"), the value that was under
\* "api_id" (resp. "obj") is gone, and every other entry is kept.
C22_CollisionKeepsOriginalValue ==
    (pc # "idle" /\ isinstance_dict(data0)) =>
        /\ Collides(data0.v, "id", "api_id") =>
              /\ DOMAIN sanitized.v = RenamedKeys(data0.v)
              /\ sanitized.v["api_id"] = data0.v["id"]
              /\ \A k \in OtherKeys(data0.v) : Conforms(data0.v[k], sanitized.v[k], FALSE)
        /\ Collides(data0.v, "object", "obj") =>
              /\ DOMAIN sanitized.v = RenamedKeys(data0.v)
              /\ sanitized.v["obj"] = data0.v["object"]
              /\ \A k \in OtherKeys(data0.v) : Conforms(data0.v[k], sanitized.v[k], FALSE)

\* C22 amended: as C22, except that the value moved over the one that was
\* there is recursively sanitized like every other value (it is the value
\* that was under "id" / "object" whenever that value holds no map with a
\* key "id" or "object").
C22_CollisionKeepsSanitizedValue ==
    (pc # "idle" /\ isinstance_dict(data0)) =>
        /\ Collides(data0.v, "id", "api_id") =>
              /\ DOMAIN sanitized.v = RenamedKeys(data0.v)
              /\ Conforms(data0.v["id"], sanitized.v["api_id"], FALSE)
              /\ ~HasReservedKey(data0.v["id"]) => sanitized.v["api_id"] = data0.v["id"]
              /\ \A k \in OtherKeys(data0.v) : Conforms(data0.v[k], sanitized.v[k], FALSE)
        /\ Collides(data0.v, "object", "obj") =>
              /\ DOMAIN sanitized.v = RenamedKeys(data0.v)
              /\ Conforms(data0.v["object"], sanitized.v["obj"], FALSE)
              /\ ~HasReservedKey(data0.v["object"]) => sanitized.v["obj"] = data0.v["object"]
              /\ \A k \in OtherKeys(data0.v) : Conforms(data0.v[k], sanitized.v[k], FALSE)

\* A map with different values under "id" and "api_id" and a third entry
\* was sanitized: "api_id" has the value of "id", the third entry is there.
C22_Witness ==
    /\ pc = "sanitized"
    /\ isinstance_dict(data0)
    /\ Collides(data0.v, "id", "api_id")
    /\ "name" \in DOMAIN data0.v
    /\ data0.v["id"] # data0.v["api_id"]
    /\ sanitized.v["api_id"] = data0.v["id"]
    /\ sanitized.v["name"] = data0.v["name"]

\* C10: sanitize_data is a pure transform: after it returns, the caller's
\* input (every nested map included) equals what it was before the call.
C10_InputNotMutated ==
    pc # "idle" => data = data0

-----------------------------------------------------------------------------
(* The connection and its endpoint methods *)

\* The name lists connection.py imports from pymtgfall/schema.py.
List_of_Platforms == {"multiverse", "mtgo", "arena", "tcgplayer", "cardmarket"}
Rulings_Platforms == {"multiverse", "mtgo", "arena"}
List_of_Catalogs == {"card-names", "artist-names"}
List_of_Card_Identifiers ==
    {"id", "mtgo_id", "multiverse_id", "oracle_id", "illustration_id",
     "name", "set", "collector_number"}

MaxQuery == 3    \* longest query given to cards_autocomplete
MaxIdents == 2   \* identifiers given to cards_collection

Call(ep, args) == [ep |-> ep, args |-> args]

\* an identifier is a dict; only its keys are looked at
IdentifierKeys ==
    {{"id"}, {"name"}, {"set"}, {"collector_number"}, {"bogus"},
     {"set", "name"}, {"set", "collector_number"}, {"name", "bogus"}}

PlatformNames == {"mtgo", "arena", "tcgplayer", "paper"}
PlatformIds == {"12345", "mtgo"}
CatalogNames == {"card-names", "bogus"}

\* the calls that fetch the paged list
ListCalls == {Call("sets", <<>>), Call("set_by_code", <<>>)}

AutocompleteCalls == {Call("cards_autocomplete", [i \in 1..n |-> "a"]) : n \in 0..MaxQuery}
CollectionCalls ==
    UNION {{Call("cards_collection", ids) : ids \in [1..n -> IdentifierKeys]} : n \in 0..MaxIdents}
PlatformCalls ==
    {Call("card_by_platform_id", <<p, i>>) : p \in PlatformNames, i \in PlatformIds}
RulingsCalls == {Call("rulings_by_platform_id", <<p>>) : p \in PlatformNames}
CatalogCalls == {Call("catalogs", <<c>>) : c \in CatalogNames}
ImageCalls == {Call("cards_named_image", <<>>)}
BulkCalls == {Call("bulk_data", <<>>)}

JsonEndpoints ==
    {"sets", "set_by_code", "cards_autocomplete", "card_by_platform_id",
     "rulings_by_platform_id", "catalogs", "bulk_data"}

\* The checks of one identifier without the two that pair "set" with
\* "name" / "collector_number".
identifier_ok_keys_only(identifier) ==
    \A k \in identifier : k \in List_of_Card_Identifiers

\* cards_collection, connection.py:273-283: the checks of one identifier
identifier_ok(identifier) ==
    \A k \in identifier :
        /\ k \in List_of_Card_Identifiers
        /\ k = "set" => ("name" \in identifier \/ "collector_number" \in identifier)
        /\ k = "collector_number" => "set" \in identifier

\* The checks an endpoint method makes on its arguments before it fetches;
\* FALSE when it raises ValueError.
\*   cards_autocomplete      connection.py:242-243
\*   cards_collection        connection.py:273-283
\*   card_by_platform_id     connection.py:325-328
\*   rulings_by_platform_id  connection.py:369-370
\*   catalogs                connection.py:404-405
arguments_ok(c, self) ==
    CASE c.ep = "cards_autocomplete" -> ~(Len(c.args) <= 2)
      [] c.ep = "cards_collection" -> \A i \in DOMAIN c.args : identifier_ok(c.args[i])
      [] c.ep = "card_by_platform_id" ->
             /\ ~(c.args[2] \notin List_of_Platforms)
             /\ ~(c.args[1] \notin self.platforms)
      [] c.ep = "rulings_by_platform_id" -> ~(c.args[1] \notin Rulings_Platforms)
      [] c.ep = "catalogs" -> ~(c.args[1] \notin List_of_Catalogs)
      [] OTHER -> TRUE

\* returnable_data of each endpoint method
returnable_data(c) ==
    IF c.ep \in {"sets", "cards_autocomplete", "cards_collection", "rulings_by_platform_id",
                 "bulk_data"}
    THEN Str("data")
    ELSE None

\* url of each endpoint method: f"{self.url}<path>"
endpoint_url(c, self) ==
    CASE c.ep \in {"sets", "set_by_code"} -> <<self.url, sets_path(1)>>
      [] c.ep = "cards_autocomplete" -> <<self.url, Tok("cards/autocomplete", 0)>>
      [] c.ep = "cards_collection" -> <<self.url, Tok("cards/collection", 0)>>
      [] c.ep = "card_by_platform_id" -> <<self.url, Tok("cards/platform/id", 0)>>
      [] c.ep = "rulings_by_platform_id" -> <<self.url, Tok("cards/platform/id/rulings", 0)>>
      [] c.ep = "catalogs" -> <<self.url, Tok("catalog/name", 0)>>
      [] c.ep = "cards_named_image" -> <<self.url, Tok("cards/named", 0)>>
      [] c.ep = "bulk_data" -> <<self.url, Slash, Tok("bulk-data", 0)>>

-----------------------------------------------------------------------------
(* The remote API (environment).  Page p of the list links to page p+1.     *)

PageAttrs ==
    {[has_more |-> h, link |-> l] : h \in {"true", "false"}, l \in {"none", "base", "other"}}
      \cup {[has_more |-> "absent", link |-> "none"]}

DefaultPage == [has_more |-> "absent", link |-> "none"]

BadResponses ==
    {[page |-> 0, status |-> 200, json |-> TRUE]}
      \cup {[page |-> p, status |-> st, json |-> TRUE] : p \in 1..MaxPages, st \in {302, 404, 500}}
      \cup {[page |-> p, status |-> 302, json |-> FALSE] : p \in 1..MaxPages}

\* The pages from p on.  Pages no request can reach (nothing links to them)
\* are left at their default: their contents cannot matter.
RECURSIVE ChainsFrom(_)
ChainsFrom(p) ==
    IF p > MaxPages THEN {<<>>}
    ELSE {<<a>> \o rest : a \in {x \in PageAttrs : x.link # "none"}, rest \in ChainsFrom(p + 1)}
           \cup {<<a>> \o [i \in 1..(MaxPages - p) |-> DefaultPage] :
                    a \in {x \in PageAttrs : x.link = "none"}}

Servers ==
    {[pages |-> f, bad |-> b, ndata |-> n] :
        f \in ChainsFrom(1), b \in BadResponses, n \in 0..MaxData}

ServerOK(srv) ==
    /\ srv.bad.page # 0 => srv.pages[srv.bad.page] = DefaultPage
    /\ srv.bad.page > 1 => srv.pages[srv.bad.page - 1].link # "none"

Items(p, n) ==
    [j \in 1..n |-> Map([k \in {"object", "id"} |->
                           IF k = "object" THEN Str("set") ELSE Num(10 * p + j)])]

PageBody(srv, p) ==
    LET a == srv.pages[p]
        keys == {"object", "data"}
                  \cup (IF a.has_more # "absent" THEN {"has_more"} ELSE {})
                  \cup (IF a.link # "none" THEN {"next_page"} ELSE {})
    IN Map([k \in keys |->
              CASE k = "object" -> Str("list")
                [] k = "data" -> List(Items(p, srv.ndata))
                [] k = "has_more" -> Bool(a.has_more = "true")
                [] k = "next_page" ->
                     Url(<<IF a.link = "base" THEN self_url ELSE other_host, sets_path(p + 1)>>)])

ErrorBody(st) ==
    Map([k \in {"object", "status"} |-> IF k = "object" THEN Str("error") ELSE Num(st)])

RedirectBody == Map([k \in {"object"} |-> Str("redirect")])

IsAbsolute(u) == Len(u) >= 1 /\ u[1] \in Hosts

Resource(u) ==
    IF Len(u) = 2 /\ u[2].seg = "sets" /\ u[2].page \in 1..MaxPages THEN u[2].page ELSE 0

\* resources other than the paged list: one JSON object each
ObjectPaths ==
    {"cards/autocomplete", "cards/collection", "cards/platform/id",
     "cards/platform/id/rulings", "catalog/name"}

ObjectBody == Map([k \in {"object", "data"} |-> IF k = "object" THEN Str("catalog") ELSE List(<<>>)])

\* where the API redirects a request for a card image
image_location == <<other_host, Tok("image", 0)>>

Response(exc, status, page, json, body, location) ==
    [exc |-> exc, status |-> status, page |-> page, json |-> json, body |-> body,
     location |-> location]

\* client.get(url) / client.post(url), connection.py:64,105: what the
\* transport gives for a URL.  A URL without scheme and host cannot be sent:
\* the client raises UnsupportedProtocol (after the request hooks have run).
client_get(srv, u) ==
    IF ~IsAbsolute(u) THEN
        Response("UnsupportedProtocol", 0, 0, FALSE, None, <<>>)
    ELSE IF u = image_location THEN
        Response("none", 200, 0, FALSE, Str("image"), <<>>)
    ELSE IF Len(u) = 2 /\ u[1] = self_url /\ u[2] = Tok("cards/named", 0) THEN
        Response("none", 302, 0, FALSE, None, image_location)
    ELSE IF Len(u) = 2 /\ u[1] = self_url /\ u[2].page = 0 /\ u[2].seg \in ObjectPaths THEN
        Response("none", 200, 0, TRUE, ObjectBody, <<>>)
    ELSE IF Resource(u) = 0 THEN
        Response("none", 404, 0, TRUE, ErrorBody(404), <<>>)
    ELSE IF srv.bad.page = Resource(u) THEN
        Response("none", srv.bad.status, Resource(u), srv.bad.json,
                 IF srv.bad.status >= 400 THEN ErrorBody(srv.bad.status) ELSE RedirectBody, <<>>)
    ELSE
        Response("none", 200, Resource(u), TRUE, PageBody(srv, Resource(u)), <<>>)

-----------------------------------------------------------------------------
(* Typed records, schema.py.  A record is a class name and the value of     *)
(* every declared field.                                                     *)

Rec(cls, f) == [t |-> "rec", v |-> [cls |-> cls, f |-> f]]

\* the fields of each dataclass that have no default
RequiredFields(cls) ==
    CASE cls = "Sets" ->
            {"api_id", "code", "name", "set_type", "card_count", "digital", "foil_only",
             "nonfoil_only", "scryfall_uri", "uri", "icon_svg_uri", "search_uri"}
      [] cls = "Rulings" -> {"source", "published_at", "comment"}
      [] cls = "CardSymbols" ->
            {"symbol", "english", "transposable", "represents_mana",
             "appears_in_mana_costs", "funny", "colors"}
      [] cls = "BulkData" ->
            {"api_id", "uri", "type", "name", "description", "download_uri", "updated_at",
             "compressed_size", "content_type", "content_encoding", "obj"}
      [] cls = "RelatedCard" -> {"api_id", "obj", "component", "name", "type_line", "uri"}
      [] cls = "CardFace" -> {"mana_cost", "name", "obj"}
      [] cls = "Cards" ->
            {"api_id", "lang", "obj", "oracle_id", "prints_search_uri", "rulings_uri",
             "scryfall_uri", "uri", "cmc", "color_identity", "keywords", "layout",
             "legalities", "name", "oversized", "reserved", "type_line", "booster",
             "border_color", "collector_number", "digital", "finishes", "frame", "full_art",
             "games", "highres_image", "image_status", "prices", "promo", "rarity",
             "related_uris", "released_at", "reprint", "scryfall_set_uri", "set_name",
             "set_search_uri", "set_type", "set_uri", "set", "set_id", "story_spotlight",
             "textless", "variation"}
      [] cls = "APIList" -> {"data"}

\* the fields of each dataclass that have a default
OptionalFields(cls) ==
    CASE cls = "Sets" ->
            {"mtgo_code", "tcgplayer_id", "released_at", "block_code", "block",
             "parent_set_code", "printed_size", "arena_code", "obj"}
      [] cls = "Rulings" -> {"obj", "oracle_id"}
      [] cls = "CardSymbols" -> {"loose_variant", "cmc", "gatherer_alternates", "svg_uri", "obj"}
      [] cls = "BulkData" -> {}
      [] cls = "RelatedCard" -> {}
      [] cls = "CardFace" ->
            {"artist", "color_indicator", "colors", "cmc", "flavor_text", "illustration_id",
             "image_uris", "layout", "loyalty", "oracle_id", "oracle_text", "power",
             "printed_name", "printed_text", "printed_type_line", "toughness", "type_line",
             "watermark", "artist_id", "flavor_name"}
      [] cls = "Cards" ->
            {"arena_id", "mtgo_id", "mtgo_foil_id", "multiverse_ids", "tcgplayer_id",
             "tcgplayer_etched_id", "cardmarket_id", "all_parts", "card_faces",
             "color_indicator", "colors", "edhrec_rank", "hand_modifier", "life_modifier",
             "loyalty", "mana_cost", "oracle_text", "power", "produced_mana", "toughness",
             "artist", "content_warning", "flavor_name", "flavor_text", "frame_effects",
             "illustration_id", "image_uris", "printed_name", "printed_text",
             "printed_type_line", "promo_types", "variation_of", "security_stamp",
             "watermark", "preview", "foil", "nonfoil", "artist_ids", "card_back_id",
             "purchase_uris"}
      [] cls = "APIList" ->
            {"has_more", "next_page", "total_cards", "warnings", "obj", "not_found"}

\* the default of an optional field: None, except APIList.has_more = False
FieldDefault(cls, k) == IF cls = "APIList" /\ k = "has_more" THEN Bool(FALSE) ELSE None

\* Object_Map, schema.py:261-270.  "list" maps to typing.List, which is not
\* a record class; of the three "" entries of the dict display the last one
\* stays.
Object_Map ==
    [tag \in {"set", "list", "card", "rulings", "symbology", ""} |->
        CASE tag = "set" -> "Sets"
          [] tag = "list" -> "typing.List"
          [] tag = "card" -> "Cards"
          [] tag = "rulings" -> "Rulings"
          [] tag = "symbology" -> "CardSymbols"
          [] tag = "" -> "BulkData"]

\* the outcome of a constructor call: a record, or the exception raised
Built(rec) == [exc |-> "none", rec |-> rec]
Raised(exc) == [exc |-> exc, rec |-> None]

\* the generated __init__ of a dataclass, applied as cls(**kw): a keyword
\* that is no field, or a field without default that is not given, is a
\* TypeError; typing.List cannot be instantiated (TypeError).
dataclass_fields(cls, kw) ==
    IF cls = "typing.List" THEN Raised("TypeError")
    ELSE IF ~(DOMAIN kw \subseteq RequiredFields(cls) \cup OptionalFields(cls))
    THEN Raised("TypeError")
    ELSE IF ~(RequiredFields(cls) \subseteq DOMAIN kw) THEN Raised("TypeError")
    ELSE Built(Rec(cls, [k \in RequiredFields(cls) \cup OptionalFields(cls) |->
                           IF k \in DOMAIN kw THEN kw[k] ELSE FieldDefault(cls, k)]))

\* The first exception among the outcomes of a sequence, "none" if there is none.
FirstExc(outs) ==
    IF \A i \in DOMAIN outs : outs[i].exc = "none" THEN "none"
    ELSE outs[CHOOSE i \in DOMAIN outs :
                 outs[i].exc # "none" /\ \A j \in 1..(i - 1) : outs[j].exc = "none"].exc

\* truth value of a field in `if self.all_parts:`
NonEmptyList(x) == x.t = "list" /\ Len(x.v) > 0

\* cls(**part) for the elements of a list field (Cards.__post_init__,
\* schema.py:164-175); an element that is no mapping is a TypeError.
construct_parts(cls, parts) ==
    [i \in DOMAIN parts |->
        IF isinstance_dict(parts[i]) THEN dataclass_fields(cls, parts[i].v)
        ELSE Raised("TypeError")]

\* Cards(**kw): __init__ and __post_init__, schema.py:63-175
construct_Cards(kw) ==
    LET made == dataclass_fields("Cards", kw) IN
    IF made.exc # "none" THEN made
    ELSE
        LET f == made.rec.v.f
            parts == IF NonEmptyList(f["all_parts"])
                     THEN construct_parts("RelatedCard", f["all_parts"].v) ELSE <<>>
            faces == IF NonEmptyList(f["card_faces"])
                     THEN construct_parts("CardFace", f["card_faces"].v) ELSE <<>>
        IN IF FirstExc(parts) # "none" THEN Raised(FirstExc(parts))
           ELSE IF FirstExc(faces) # "none" THEN Raised(FirstExc(faces))
           ELSE Built(Rec("Cards",
                    [k \in DOMAIN f |->
                        IF k = "all_parts" /\ NonEmptyList(f[k])
                        THEN List([i \in DOMAIN parts |-> parts[i].rec])
                        ELSE IF k = "card_faces" /\ NonEmptyList(f[k])
                        THEN List([i \in DOMAIN faces |-> faces[i].rec])
                        ELSE f[k]]))

\* data_type_class(**item) for a class of Object_Map
construct_class(cls, kw) ==
    IF cls = "Cards" THEN construct_Cards(kw) ELSE dataclass_fields(cls, kw)

\* `except TypeError: continue`, schema.py:256-257
caught(exc) == exc = "TypeError"

\* One turn of the loop of APIList.__post_init__, schema.py:252-257, up to
\* the except clause: item["obj"] is a TypeError when item is no mapping and
\* a KeyError when it has no "obj"; Object_Map[tag] is a KeyError for a tag
\* that is no key (a TypeError for a tag that cannot be hashed).
decode_item(item) ==
    IF ~isinstance_dict(item) THEN Raised("TypeError")
    ELSE IF "obj" \notin DOMAIN item.v THEN Raised("KeyError")
    ELSE IF item.v["obj"].t \in {"list", "map"} THEN Raised("TypeError")
    ELSE IF item.v["obj"].t # "str" \/ item.v["obj"].v \notin DOMAIN Object_Map
    THEN Raised("KeyError")
    ELSE construct_class(Object_Map[item.v["obj"].v], item.v)

\* the elements of `outs` that are records, in order
RECURSIVE KeptRecords(_)
KeptRecords(outs) ==
    IF outs = <<>> THEN <<>>
    ELSE (IF Head(outs).exc = "none" THEN <<Head(outs).rec>> ELSE <<>>)
            \o KeptRecords(Tail(outs))

\* the outcomes that the except clause does not catch
Uncaught(outs) ==
    [i \in DOMAIN outs |->
        IF outs[i].exc # "none" /\ caught(outs[i].exc) THEN Built(None) ELSE outs[i]]

\* APIList(**kw): __init__ and __post_init__, schema.py:235-258
construct_APIList(kw) ==
    LET made == dataclass_fields("APIList", kw) IN
    IF made.exc # "none" THEN made
    ELSE IF made.rec.v.f["data"].t \in {"num", "bool", "none"} THEN Raised("TypeError")
    ELSE
        LET f == made.rec.v.f
            \* iterating a str or a dict gives strings, none of which decodes
            items == IF f["data"].t = "list" THEN f["data"].v ELSE <<>>
            outs == [i \in DOMAIN items |-> decode_item(items[i])]
        IN IF FirstExc(Uncaught(outs)) # "none" THEN Raised(FirstExc(Uncaught(outs)))
           ELSE Built(Rec("APIList",
                    [k \in DOMAIN f |->
                        IF k = "data" THEN List(KeptRecords(outs)) ELSE f[k]]))

-----------------------------------------------------------------------------
(* The fetch: get_json, its hooks and pagination_list                       *)

Ev(name, u, p, st) == [ev |-> name, url |-> u, page |-> p, status |-> st]

NumEvents(tr, name) == Cardinality({i \in DOMAIN tr : tr[i].ev = name})

\* The hook of src/src/connection.py:18-22: raise_for_status() is called for
\* every response, so everything that is not a success raises.
raise_on_non_2xx(resp) ==
    IF resp.status >= 400
    THEN <<Ev("aread", <<>>, resp.page, resp.status),
           Ev("log", <<>>, resp.page, resp.status),
           Ev("raise_for_status", <<>>, resp.page, resp.status)>>
    ELSE IF resp.status \notin 200..299
    THEN <<Ev("raise_for_status", <<>>, resp.page, resp.status)>>
    ELSE <<>>

\* A hook that only looks for server errors.
raise_on_5xx(resp) ==
    IF resp.status >= 500
    THEN <<Ev("aread", <<>>, resp.page, resp.status),
           Ev("log", <<>>, resp.page, resp.status),
           Ev("raise_for_status", <<>>, resp.page, resp.status)>>
    ELSE <<>>

\* raise_on_4xx_5xx, connection.py:34-39: the events of the response hook.
\* It raises exactly when its last event is raise_for_status.
raise_on_4xx_5xx(resp) ==
    IF resp.status >= 400
    THEN <<Ev("aread", <<>>, resp.page, resp.status),
           Ev("log", <<>>, resp.page, resp.status),
           Ev("raise_for_status", <<>>, resp.page, resp.status)>>
    ELSE <<>>

HookRaises(resp) == raise_on_4xx_5xx(resp) # <<>>

\* The guard of src/src/connection.py:88, which does not look at return_data.
pagination_guard_any_return_data(rd, r) ==
    /\ isinstance_dict(r)
    /\ "has_more" \in DOMAIN r.v
    /\ "next_page" \in DOMAIN r.v

\* A guard that looks at return_data only.
pagination_guard_ignores_keys(rd, r) ==
    /\ isinstance_dict(r)
    /\ rd.t = "str"

\* the guard of pagination_list, connection.py:132
pagination_guard(rd, r) ==
    /\ isinstance_dict(r)
    /\ "has_more" \in DOMAIN r.v
    /\ "next_page" \in DOMAIN r.v
    /\ rd.t = "str"

\* truth value of a JSON value in `while has_more`
Truthy(x) == x.t = "bool" /\ x.v = TRUE

\* a server whose paged list is not looked at
DefaultServer ==
    [pages |-> [i \in 1..MaxPages |-> DefaultPage],
     bad |-> [page |-> 0, status |-> 200, json |-> TRUE],
     ndata |-> 0]

FetchInit ==
    /\ \/ server \in {srv \in Servers : ServerOK(srv)} /\ call \in ListCalls
       \/ server = DefaultServer /\ call \in AutocompleteCalls
       \/ server = DefaultServer /\ call \in CollectionCalls
       \/ server = DefaultServer /\ call \in PlatformCalls
       \/ server = DefaultServer /\ call \in RulingsCalls
       \/ server = DefaultServer /\ call \in CatalogCalls
       \/ server = DefaultServer /\ call \in ImageCalls
       \/ server = DefaultServer /\ call \in BulkCalls
    /\ return_data = returnable_data(call)
    /\ conn = ScryfallConnection
    /\ record = None
    /\ fetches = <<>>
    /\ task = "start"
    /\ in_loop = FALSE
    /\ url = <<>>
    /\ returnable = None
    /\ has_more = None
    /\ result = None
    /\ err = "none"
    /\ trace = <<>>
    /\ pc = "none"
    /\ data = None
    /\ data0 = None
    /\ sanitized = None
    /\ resanitized = None

\* An endpoint method whose arguments fail its checks raises ValueError.
raise_ValueError ==
    /\ task = "start"
    /\ ~arguments_ok(call, conn)
    /\ err' = "ValueError"
    /\ task' = "raised"
    /\ UNCHANGED <<server, return_data, in_loop, url, returnable, has_more, result, trace>>
    /\ UNCHANGED <<sanvars, callvars, decvars, concvars>>

\* sets / set_by_code, connection.py:146-157, and the other endpoints that
\* call get_json(url, return_data=...), which calls _get, which builds the
\* request and enters the request hook.
get_json ==
    /\ task = "start"
    /\ call.ep \in JsonEndpoints
    /\ arguments_ok(call, conn)
    /\ url' = endpoint_url(call, conn)
    /\ trace' = Append(trace, Ev("request", endpoint_url(call, conn), 0, 0))
    /\ task' = "sleeping"
    /\ UNCHANGED <<server, return_data, in_loop, returnable, has_more, result, err>>
    /\ UNCHANGED <<sanvars, callvars, decvars, concvars>>

\* cards_collection -> post, connection.py:285,100-105: post requests
\* f"{self.url}{endpoint}" for the endpoint it is given.
post ==
    /\ task = "start"
    /\ call.ep = "cards_collection"
    /\ arguments_ok(call, conn)
    /\ url' = <<conn.url>> \o endpoint_url(call, conn)
    /\ trace' = Append(trace, Ev("request", <<conn.url>> \o endpoint_url(call, conn), 0, 0))
    /\ task' = "sleeping"
    /\ UNCHANGED <<server, return_data, in_loop, returnable, has_more, result, err>>
    /\ UNCHANGED <<sanvars, callvars, decvars, concvars>>

\* cards_named_image -> get_image -> _get(follow_redirects=True),
\* connection.py:237,97,58-64
get_image ==
    /\ task = "start"
    /\ call.ep = "cards_named_image"
    /\ url' = endpoint_url(call, conn)
    /\ trace' = Append(trace, Ev("request", endpoint_url(call, conn), 0, 0))
    /\ task' = "sleeping"
    /\ UNCHANGED <<server, return_data, in_loop, returnable, has_more, result, err>>
    /\ UNCHANGED <<sanvars, callvars, decvars, concvars>>

\* the suspension of ratelimit_request: trio.sleep(seconds=self.sleep)
SleepEv(u, ms) == [ev |-> "sleep", url |-> u, page |-> 0, status |-> 0, ms |-> ms]

\* A request hook that delays only the first request of a fetch.
ratelimit_first_request ==
    /\ task = "sleeping"
    /\ NumEvents(trace, "request") <= MaxRequests
    /\ trace' = IF in_loop THEN trace ELSE Append(trace, SleepEv(url, conn.sleep))
    /\ task' = "sending"
    /\ UNCHANGED <<server, return_data, in_loop, url, returnable, has_more, result, err>>
    /\ UNCHANGED <<sanvars, callvars, decvars, concvars>>

\* ratelimit_request, connection.py:41-44: the request hook sleeps, then the
\* request goes to the transport.
ratelimit_request ==
    /\ task = "sleeping"
    /\ NumEvents(trace, "request") <= MaxRequests
    /\ trace' = Append(trace, SleepEv(url, conn.sleep))
    /\ task' = "sending"
    /\ UNCHANGED <<server, return_data, in_loop, url, returnable, has_more, result, err>>
    /\ UNCHANGED <<sanvars, callvars, decvars, concvars>>

\* client.get raises: the exception leaves get_json and pagination_list.
transport_error ==
    /\ task = "sending"
    /\ client_get(server, url).exc # "none"
    /\ err' = client_get(server, url).exc
    /\ trace' = Append(trace, Ev("exception", url, 0, 0))
    /\ task' = "raised"
    /\ UNCHANGED <<server, return_data, in_loop, url, returnable, has_more, result>>
    /\ UNCHANGED <<sanvars, callvars, decvars, concvars>>

\* An error response to a follow-up ends the loop and hands back the pages
\* gathered so far.
http_error_returns_accumulated ==
    /\ task = "sending"
    /\ LET resp == client_get(server, url) IN
        /\ resp.exc = "none"
        /\ HookRaises(resp)
        /\ trace' = Append(trace, Ev("response", url, resp.page, resp.status))
                      \o raise_on_4xx_5xx(resp)
    /\ err' = IF in_loop THEN "none" ELSE "HTTPStatusError"
    /\ result' = IF in_loop THEN returnable ELSE result
    /\ task' = IF in_loop THEN "returned" ELSE "raised"
    /\ UNCHANGED <<server, return_data, in_loop, url, returnable, has_more>>
    /\ UNCHANGED <<sanvars, callvars, decvars, concvars>>

\* the response hook raises HTTPStatusError
http_error ==
    /\ task = "sending"
    /\ LET resp == client_get(server, url) IN
        /\ resp.exc = "none"
        /\ HookRaises(resp)
        /\ trace' = Append(trace, Ev("response", url, resp.page, resp.status))
                      \o raise_on_4xx_5xx(resp)
    /\ err' = "HTTPStatusError"
    /\ task' = "raised"
    /\ UNCHANGED <<server, return_data, in_loop, url, returnable, has_more, result>>
    /\ UNCHANGED <<sanvars, callvars, decvars, concvars>>

\* resp.json() fails on a body that is not JSON, connection.py:81
decode_error ==
    /\ task = "sending"
    /\ LET resp == client_get(server, url) IN
        /\ resp.exc = "none"
        /\ ~HookRaises(resp)
        /\ call.ep \in JsonEndpoints \cup {"cards_collection"}
        /\ ~resp.json
        /\ trace' = Append(trace, Ev("response", url, resp.page, resp.status))
    /\ err' = "JSONDecodeError"
    /\ task' = "raised"
    /\ UNCHANGED <<server, return_data, in_loop, url, returnable, has_more, result>>
    /\ UNCHANGED <<sanvars, callvars, decvars, concvars>>

\* The client follows a redirect (follow_redirects=True): it builds the
\* request for the Location and runs the request hook for it.
image_redirect ==
    /\ task = "sending"
    /\ call.ep = "cards_named_image"
    /\ LET resp == client_get(server, url) IN
        /\ resp.exc = "none"
        /\ resp.status \in 300..399
        /\ url' = resp.location
        /\ trace' = trace \o <<Ev("response", url, resp.page, resp.status),
                                 Ev("request", resp.location, 0, 0)>>
    /\ task' = "sleeping"
    /\ UNCHANGED <<server, return_data, in_loop, returnable, has_more, result, err>>
    /\ UNCHANGED <<sanvars, callvars, decvars, concvars>>

\* get_image, connection.py:97-98: BytesIO(resp.content)
image_return ==
    /\ task = "sending"
    /\ call.ep = "cards_named_image"
    /\ LET resp == client_get(server, url) IN
        /\ resp.exc = "none"
        /\ ~HookRaises(resp)
        /\ resp.status \notin 300..399
        /\ result' = resp.body
        /\ trace' = Append(trace, Ev("response", url, resp.page, resp.status))
    /\ task' = "returned"
    /\ UNCHANGED <<server, return_data, in_loop, url, returnable, has_more, err>>
    /\ UNCHANGED <<sanvars, callvars, decvars, concvars>>

\* An accumulation that also carries the page's has_more and next_page over
\* to the accumulator.
list_extend_and_flags(acc, page, key) ==
    [acc EXCEPT !.v = [k \in DOMAIN acc.v |->
        IF k = key THEN List(acc.v[key].v \o page.v[key].v)
        ELSE IF k \in {"has_more", "next_page"} /\ k \in DOMAIN page.v THEN page.v[k]
        ELSE acc.v[k]]]

\* returnable[return_data] += pagination[return_data], connection.py:137:
\* the list held by the first page's dict is extended in place; no other
\* entry of that dict is assigned.
list_extend(acc, page, key) ==
    [acc EXCEPT !.v[key] = List(acc.v[key].v \o page.v[key].v)]

\* get_json with pagination=True, connection.py:80-84 (post:
\* connection.py:107-108), up to the first request of pagination_list's loop
\* (connection.py:131-136).
first_page ==
    /\ task = "sending"
    /\ ~in_loop
    /\ call.ep \in JsonEndpoints \cup {"cards_collection"}
    /\ LET resp == client_get(server, url)
           san == sanitize_data(resp.body).ret
           next == str_replace(san.v["next_page"].v, self_url)
           seen == trace \o <<Ev("response", url, resp.page, resp.status),
                               Ev("sanitize_data", url, resp.page, resp.status),
                               Ev("pagination_list", url, resp.page, resp.status)>>
       IN
        /\ resp.exc = "none"
        /\ ~HookRaises(resp)
        /\ resp.json
        /\ IF ~pagination_guard(return_data, san)
           THEN /\ result' = san
                /\ task' = "returned"
                /\ trace' = seen
                /\ UNCHANGED <<returnable, has_more, url, in_loop, err>>
           ELSE IF "next_page" \notin DOMAIN san.v
           THEN /\ err' = "KeyError"
                /\ task' = "raised"
                /\ trace' = seen
                /\ UNCHANGED <<returnable, has_more, url, in_loop, result>>
           ELSE /\ returnable' = san
                /\ has_more' = Bool(TRUE)
                /\ url' = next
                /\ in_loop' = TRUE
                /\ trace' = Append(seen, Ev("request", next, 0, 0))
                /\ task' = "sleeping"
                /\ UNCHANGED <<result, err>>
    /\ UNCHANGED <<server, return_data>>
    /\ UNCHANGED <<sanvars, callvars, decvars, concvars>>

\* One turn of pagination_list's loop, connection.py:135-141: the page that
\* get_json(url, pagination=False) returned is added to returnable.
next_page ==
    /\ task = "sending"
    /\ in_loop
    /\ LET resp == client_get(server, url)
           pagination == sanitize_data(resp.body).ret
           key == return_data.v
           seen == trace \o <<Ev("response", url, resp.page, resp.status),
                               Ev("sanitize_data", url, resp.page, resp.status)>>
           acc == list_extend(returnable, pagination, key)
           next == IF "next_page" \in DOMAIN pagination.v
                   THEN str_replace(pagination.v["next_page"].v, self_url)
                   ELSE url
       IN
        /\ resp.exc = "none"
        /\ ~HookRaises(resp)
        /\ resp.json
        /\ IF key \notin DOMAIN returnable.v \/ key \notin DOMAIN pagination.v
           THEN /\ err' = "KeyError"
                /\ task' = "raised"
                /\ trace' = seen
                /\ UNCHANGED <<returnable, has_more, url, result>>
           ELSE IF "has_more" \notin DOMAIN pagination.v
           THEN /\ returnable' = acc
                /\ err' = "KeyError"
                /\ task' = "raised"
                /\ trace' = seen
                /\ UNCHANGED <<has_more, url, result>>
           ELSE /\ returnable' = acc
                /\ has_more' = pagination.v["has_more"]
                /\ url' = next
                /\ IF Truthy(pagination.v["has_more"])
                   THEN /\ trace' = Append(seen, Ev("request", next, 0, 0))
                        /\ task' = "sleeping"
                        /\ UNCHANGED result
                   ELSE /\ result' = acc
                        /\ task' = "returned"
                        /\ trace' = seen
                /\ UNCHANGED err
    /\ UNCHANGED <<server, return_data, in_loop>>
    /\ UNCHANGED <<sanvars, callvars, decvars, concvars>>

Next ==
    \/ raise_ValueError
    \/ get_json
    \/ post
    \/ get_image
    \/ ratelimit_request
    \/ image_redirect
    \/ image_return
    \/ transport_error
    \/ http_error
    \/ decode_error
    \/ first_page
    \/ next_page

Init == FetchInit

Spec == Init /\ [][Next]_vars

-----------------------------------------------------------------------------
(* The Sets endpoints on one single-page response: the response is          *)
(* sanitized by get_json and handed to the record constructor.              *)

MaxItems == 2   \* elements of the data list of a list response

dict_without(m, k) == Map([x \in DOMAIN m.v \ {k} |-> m.v[x]])
dict_with(m, k, val) == Map([x \in DOMAIN m.v \cup {k} |-> IF x = k THEN val ELSE m.v[x]])

\* a set object as the API sends it (test_scryfall.py:101-135), with id n
RawSet(n) ==
    Map([k \in {"object", "id", "code", "name", "set_type", "card_count", "digital",
                 "foil_only", "nonfoil_only", "scryfall_uri", "uri", "icon_svg_uri",
                 "search_uri"} |->
            CASE k = "object" -> Str("set")
              [] k = "id" -> Num(n)
              [] k = "card_count" -> Num(26)
              [] k \in {"digital", "foil_only", "nonfoil_only"} -> Bool(FALSE)
              [] OTHER -> Str(k)])

\* a ruling object, with id n
RawRuling(n) ==
    Map([k \in {"object", "oracle_id", "source", "published_at", "comment"} |->
            CASE k = "object" -> Str("rulings")
              [] k = "oracle_id" -> Num(n)
              [] OTHER -> Str(k)])

ItemKinds ==
    {"set", "set with optional field", "set without code", "set with extra field",
     "set without object", "set tagged planet", "set tagged list", "set tagged card",
     "set tagged empty", "ruling", "ruling with extra field", "string"}

RawItem(kind, n) ==
    CASE kind = "set" -> RawSet(n)
      [] kind = "set with optional field" -> dict_with(RawSet(n), "tcgplayer_id", Num(2958))
      [] kind = "set without code" -> dict_without(RawSet(n), "code")
      [] kind = "set with extra field" -> dict_with(RawSet(n), "extra", Str("extra"))
      [] kind = "set without object" -> dict_without(RawSet(n), "object")
      [] kind = "set tagged planet" -> dict_with(RawSet(n), "object", Str("planet"))
      [] kind = "set tagged list" -> dict_with(RawSet(n), "object", Str("list"))
      [] kind = "set tagged card" -> dict_with(RawSet(n), "object", Str("card"))
      [] kind = "set tagged empty" -> dict_with(RawSet(n), "object", Str(""))
      [] kind = "ruling" -> RawRuling(n)
      [] kind = "ruling with extra field" -> dict_with(RawRuling(n), "extra", Str("extra"))
      [] kind = "string" -> Str("set")

\* a single-page list response whose elements are of the given kinds
RawList(kinds) ==
    Map([k \in {"object", "has_more", "data"} |->
            CASE k = "object" -> Str("list")
              [] k = "has_more" -> Bool(FALSE)
              [] k = "data" -> List([i \in DOMAIN kinds |-> RawItem(kinds[i], i)])])

ListResponses == UNION {{RawList(kinds) : kinds \in [1..n -> ItemKinds]} : n \in 0..MaxItems}

ObjectResponses == {RawItem(kind, 1) : kind \in ItemKinds \ {"string"}}

SingleSetCalls == {Call("set_by_code", <<>>), Call("set_by_tcgplayer", <<>>), Call("set_by_id", <<>>)}

DecodeInit ==
    /\ \/ call = Call("sets", <<>>) /\ data \in ListResponses
       \/ call \in SingleSetCalls /\ data \in ObjectResponses
    /\ data0 = data
    /\ pc = "called"
    /\ sanitized = None
    /\ resanitized = None
    /\ record = None
    /\ conn = ScryfallConnection
    /\ fetches = <<>>
    /\ server = None
    /\ return_data = returnable_data(call)
    /\ task = "none"
    /\ in_loop = FALSE
    /\ url = <<>>
    /\ returnable = None
    /\ has_more = None
    /\ result = None
    /\ err = "none"
    /\ trace = <<>>

\* get_json on a response that is not paginated, connection.py:80-84:
\* sanitize_data, then pagination_list, which returns what it is given.
endpoint_get_json ==
    /\ pc = "called"
    /\ ~pagination_guard(return_data, sanitize_data(data).ret)
    /\ sanitized' = sanitize_data(data).ret
    /\ data' = sanitize_data(data).arg
    /\ pc' = "fetched"
    /\ UNCHANGED <<data0, resanitized, record>>
    /\ UNCHANGED <<fetchvars, callvars, concvars>>

\* sets: APIList(**all_sets), connection.py:151;
\* set_by_code / set_by_tcgplayer / set_by_id: Sets(**set_data),
\* connection.py:157,163,169
endpoint_construct ==
    /\ pc = "fetched"
    /\ record' = IF call.ep = "sets"
                 THEN construct_APIList(sanitized.v)
                 ELSE dataclass_fields("Sets", sanitized.v)
    /\ pc' = "done"
    /\ UNCHANGED <<data, data0, sanitized, resanitized>>
    /\ UNCHANGED <<fetchvars, callvars, concvars>>

DecodeNext == endpoint_get_json \/ endpoint_construct

DecodeSpec == DecodeInit /\ [][DecodeNext]_vars

-----------------------------------------------------------------------------
(* Several fetches on one connection.  Each call of get_json runs in its    *)
(* own coroutine: url, returnable, has_more, pagination and the client are   *)
(* local to the call; self is shared.  A coroutine runs from one await to    *)
(* the next: up to the sleep of the request hook, up to the network wait,    *)
(* and through the handling of the response.                                 *)

NumTasks == 2   \* fetches running concurrently

Tasks == 1..NumTasks

\* the local variables of a call of sets() / set_by_code() that has not begun
Local0(rd) ==
    [task |-> "start", return_data |-> rd, in_loop |-> FALSE, url |-> <<>>,
     returnable |-> None, has_more |-> None, result |-> None, err |-> "none",
     trace |-> <<>>]

\* the handling of a response by get_json and pagination_list,
\* connection.py:64-85,131-142
on_response(l, resp, self) ==
    LET got == Append(l.trace, Ev("response", l.url, resp.page, resp.status))
        san == sanitize_data(resp.body).ret
        key == l.return_data.v
    IN
    IF HookRaises(resp) THEN
        [l EXCEPT !.task = "raised", !.err = "HTTPStatusError",
                  !.trace = got \o raise_on_4xx_5xx(resp)]
    ELSE IF ~resp.json THEN
        [l EXCEPT !.task = "raised", !.err = "JSONDecodeError", !.trace = got]
    ELSE IF ~l.in_loop THEN
        LET seen == got \o <<Ev("sanitize_data", l.url, resp.page, resp.status),
                              Ev("pagination_list", l.url, resp.page, resp.status)>>
        IN IF ~pagination_guard(l.return_data, san) THEN
               [l EXCEPT !.task = "returned", !.result = san, !.trace = seen]
           ELSE IF "next_page" \notin DOMAIN san.v THEN
               [l EXCEPT !.task = "raised", !.err = "KeyError", !.trace = seen]
           ELSE
               LET next == str_replace(san.v["next_page"].v, self.url)
               IN [l EXCEPT !.task = "sleeping", !.returnable = san,
                            !.has_more = Bool(TRUE), !.url = next, !.in_loop = TRUE,
                            !.trace = Append(seen, Ev("request", next, 0, 0))]
    ELSE
        LET seen == Append(got, Ev("sanitize_data", l.url, resp.page, resp.status))
        IN IF key \notin DOMAIN l.returnable.v \/ key \notin DOMAIN san.v THEN
               [l EXCEPT !.task = "raised", !.err = "KeyError", !.trace = seen]
           ELSE
               LET acc == list_extend(l.returnable, san, key)
                   next == IF "next_page" \in DOMAIN san.v
                           THEN str_replace(san.v["next_page"].v, self.url)
                           ELSE l.url
               IN IF "has_more" \notin DOMAIN san.v THEN
                      [l EXCEPT !.task = "raised", !.err = "KeyError",
                                !.returnable = acc, !.trace = seen]
                  ELSE IF Truthy(san.v["has_more"]) THEN
                      [l EXCEPT !.task = "sleeping", !.returnable = acc,
                                !.has_more = san.v["has_more"], !.url = next,
                                !.trace = Append(seen, Ev("request", next, 0, 0))]
                  ELSE
                      [l EXCEPT !.task = "returned", !.returnable = acc,
                                !.has_more = san.v["has_more"], !.url = next,
                                !.result = acc, !.trace = seen]

\* TRUE when the coroutine with locals l can run
can_step(l) ==
    \/ l.task \in {"start", "sending"}
    \/ l.task = "sleeping" /\ NumEvents(l.trace, "request") <= MaxRequests

\* One run of a coroutine, from one await to the next, for sets() /
\* set_by_code(): connection.py:146-157, 46-85, 131-142.
fetch_step(l, srv, self) ==
    IF l.task = "start" THEN
        [l EXCEPT !.task = "sleeping", !.url = <<self.url, sets_path(1)>>,
                  !.trace = Append(l.trace, Ev("request", <<self.url, sets_path(1)>>, 0, 0))]
    ELSE IF l.task = "sleeping" THEN
        [l EXCEPT !.task = "sending", !.trace = Append(l.trace, SleepEv(l.url, self.sleep))]
    ELSE IF client_get(srv, l.url).exc # "none" THEN
        [l EXCEPT !.task = "raised", !.err = client_get(srv, l.url).exc,
                  !.trace = Append(l.trace, Ev("exception", l.url, 0, 0))]
    ELSE on_response(l, client_get(srv, l.url), self)

\* the servers the concurrent fetches run against
ConcServers ==
    {srv \in Servers : ServerOK(srv) /\ srv.ndata = 1 /\ srv.bad.status \in {200, 404}}

ConcInit ==
    /\ server \in ConcServers
    /\ fetches \in [Tasks -> {Local0(Str("data")), Local0(None)}]
    /\ conn = ScryfallConnection
    /\ call = Call("sets", <<>>)
    /\ record = None
    /\ return_data = None
    /\ task = "none"
    /\ in_loop = FALSE
    /\ url = <<>>
    /\ returnable = None
    /\ has_more = None
    /\ result = None
    /\ err = "none"
    /\ trace = <<>>
    /\ pc = "none"
    /\ data = None
    /\ data0 = None
    /\ sanitized = None
    /\ resanitized = None

\* A turn that also keeps the host of the link it follows in self.url.
fetch_turn_rebinds_url(t) ==
    /\ can_step(fetches[t])
    /\ fetches' = [fetches EXCEPT ![t] = fetch_step(fetches[t], server, conn)]
    /\ conn' = IF fetches'[t].in_loop /\ ~fetches[t].in_loop
               THEN [conn EXCEPT !.url = other_host]
               ELSE conn
    /\ UNCHANGED <<call, record>>
    /\ UNCHANGED <<sanvars, fetchvars>>

\* The scheduler runs coroutine t up to its next await.  No statement of
\* connection.py assigns an attribute of self after __init__.
fetch_turn(t) ==
    /\ can_step(fetches[t])
    /\ fetches' = [fetches EXCEPT ![t] = fetch_step(fetches[t], server, conn)]
    /\ UNCHANGED <<conn, call, record>>
    /\ UNCHANGED <<sanvars, fetchvars>>

ConcNext == \E t \in Tasks : fetch_turn(t)

ConcSpec == ConcInit /\ [][ConcNext]_vars

-----------------------------------------------------------------------------
(* Properties of the fetch *)

\* requests issued after the first one
FollowUps(tr) == NumEvents(tr, "request") - 1

Finished == task \in {"returned", "raised"}

\* Pages 1..K answer 200, pages 1..K-1 carry has_more = true and a next_page
\* link, page K carries has_more = false and is the end of the chain.
Chain(srv, K) ==
    /\ srv.bad.page = 0
    /\ \A p \in 1..(K - 1) : srv.pages[p].has_more = "true" /\ srv.pages[p].link # "none"
    /\ srv.pages[K].has_more = "false"
    /\ srv.pages[K].link = "none"

\* what a data element of page p looks like once sanitized
SanitizedItem(p, j) ==
    Map([k \in {"obj", "api_id"} |-> IF k = "obj" THEN Str("set") ELSE Num(10 * p + j)])

\* page1.data ++ ... ++ pageK.data, sanitized
ConcatData(srv, K) ==
    [i \in 1..(K * srv.ndata) |->
        SanitizedItem(((i - 1) \div srv.ndata) + 1, ((i - 1) % srv.ndata) + 1)]

\* the 200 response at position i of the trace is a page with these attributes
PageReceived(i, hm, withLink) ==
    /\ trace[i].ev = "response"
    /\ trace[i].status = 200
    /\ trace[i].page \in DOMAIN server.pages
    /\ server.pages[trace[i].page].has_more = hm
    /\ (server.pages[trace[i].page].link # "none") = withLink

\* C1: for a chain of K >= 1 pages (1..K-1 with has_more = true and a
\* next_page link, page K with has_more = false) a fetch with
\* return_data = "data" returns one result whose data is exactly
\* page1.data ++ ... ++ pageK.data, in page order.
C1_DataIsConcatenationOfPages ==
    \A K \in 1..MaxPages :
        (Chain(server, K) /\ return_data = Str("data") /\ Finished) =>
            /\ task = "returned"
            /\ result.v["data"] = List(ConcatData(server, K))

\* C2: for a chain of K pages whose K-th page is the first with
\* has_more = false, pagination_list issues exactly K-1 follow-up requests and
\* then returns; every page is requested once and no request is issued after
\* a page with has_more = false has been received.
C2_ExactlyKMinusOneFollowUps ==
    \A K \in 1..MaxPages :
        (Chain(server, K) /\ return_data = Str("data")) =>
            /\ Finished =>
                  /\ task = "returned"
                  /\ FollowUps(trace) = K - 1
                  /\ \A p \in 1..K :
                        Cardinality({i \in DOMAIN trace :
                            trace[i].ev = "response" /\ trace[i].page = p}) = 1
            /\ \A i, j \in DOMAIN trace :
                  (i < j /\ PageReceived(i, "false", FALSE)) => trace[j].ev # "request"

\* C3: if a fetched follow-up page has has_more = true but no next_page key,
\* pagination_list issues no further request (it never requests again a page
\* it already fetched) and returns what it accumulated.
C3_StopsWhenNextPageAbsent ==
    \A i \in DOMAIN trace :
        (PageReceived(i, "true", FALSE) /\ \E h \in 1..(i - 1) : trace[h].ev = "response") =>
            /\ \A j \in DOMAIN trace : j > i => trace[j].ev # "request"
            /\ task = "returned"

\* C4: when the first page has has_more = false, with or without a next_page
\* key, no follow-up request is issued and the first page is the result.
C4_NoFollowUpWhenFirstPageIsLast ==
    \A i \in DOMAIN trace :
        (trace[i].ev = "response" /\ trace[i].status = 200 /\ trace[i].page = 1
            /\ ~(\E h \in 1..(i - 1) : trace[h].ev = "response")
            /\ server.pages[1].has_more = "false") =>
            /\ FollowUps(trace) = 0
            /\ task = "returned"
            /\ result = sanitize_data(PageBody(server, 1)).ret

\* C5: a response with status >= 400 makes the request raise HTTPStatusError;
\* the error body is read and logged before the error is raised, and neither
\* sanitize_data nor pagination_list nor record construction runs for it.
C5_ErrorStatusLoggedThenRaised ==
    \A i \in DOMAIN trace :
        (trace[i].ev = "response" /\ trace[i].status >= 400) =>
            /\ task = "raised"
            /\ err = "HTTPStatusError"
            /\ result = None
            /\ Len(trace) = i + 3
            /\ trace[i + 1].ev = "aread"
            /\ trace[i + 2].ev = "log"
            /\ trace[i + 3].ev = "raise_for_status"

C5_Witness ==
    /\ task = "raised"
    /\ err = "HTTPStatusError"
    /\ \E i \in DOMAIN trace :
          trace[i].ev = "response" /\ trace[i].status = 404 /\ trace[i].page = 1

\* C6 as stated: every response that is not 2xx (3xx received by get_json
\* included) makes the fetch raise an HTTP-status error, and no such body is
\* passed on to sanitize_data.
C6_EveryNon2xxRaises ==
    \A i \in DOMAIN trace :
        (trace[i].ev = "response" /\ trace[i].status \notin 200..299) =>
            /\ task = "raised"
            /\ err = "HTTPStatusError"
            /\ \A j \in DOMAIN trace : j > i => trace[j].ev # "sanitize_data"

\* C6 amended: every response with status >= 400 makes the fetch raise an
\* HTTP-status error and its body never reaches sanitize_data; a 3xx response
\* received by get_json raises no HTTP-status error: its body goes to
\* resp.json() and, when it decodes, on to sanitize_data.
C6_Only4xx5xxRaise ==
    \A i \in DOMAIN trace :
        /\ (trace[i].ev = "response" /\ trace[i].status >= 400) =>
              /\ task = "raised"
              /\ err = "HTTPStatusError"
              /\ \A j \in DOMAIN trace : j > i => trace[j].ev # "sanitize_data"
        /\ (call.ep \in JsonEndpoints /\ trace[i].ev = "response"
              /\ trace[i].status \in 300..399) =>
              /\ err # "HTTPStatusError"
              /\ IF server.bad.json
                 THEN trace[i + 1].ev = "sanitize_data"
                 ELSE task = "raised" /\ err = "JSONDecodeError" /\ Len(trace) = i

C6_Witness ==
    \E i \in DOMAIN trace :
        /\ trace[i].ev = "response"
        /\ trace[i].status = 302
        /\ i < Len(trace)
        /\ trace[i + 1].ev = "sanitize_data"
        /\ task = "returned"

\* C11: every request that goes out -- the first GET of get_json and of
\* get_image, the POST of post, every pagination follow-up -- is preceded by
\* exactly one suspension of self.sleep that completes before the request is
\* sent, whatever was answered before.
C11_EveryRequestDelayedOnce ==
    /\ \A i \in DOMAIN trace :
          trace[i].ev \in {"response", "exception"} =>
              /\ i > 2
              /\ trace[i - 1].ev = "sleep"
              /\ trace[i - 1].ms = self_sleep
              /\ trace[i - 1].url = trace[i].url
              /\ trace[i - 2].ev = "request"
              /\ trace[i - 2].url = trace[i].url
    /\ \A i \in DOMAIN trace :
          trace[i].ev = "sleep" => (i > 1 /\ trace[i - 1].ev = "request")

C11_Witness ==
    /\ call.ep = "sets"
    /\ \E i \in DOMAIN trace : trace[i].ev = "response" /\ trace[i].page = 3
    /\ NumEvents(trace, "sleep") = 3

\* the arguments fail a precondition, in the words of the contract
FailsPrecondition(c) ==
    \/ c.ep = "cards_autocomplete" /\ Len(c.args) < 3
    \/ c.ep = "cards_collection" /\ \E i \in DOMAIN c.args :
          \/ \E k \in c.args[i] : k \notin List_of_Card_Identifiers
          \/ "set" \in c.args[i] /\ c.args[i] \cap {"name", "collector_number"} = {}
          \/ "collector_number" \in c.args[i] /\ "set" \notin c.args[i]
    \/ c.ep = "card_by_platform_id" /\ c.args[1] \notin List_of_Platforms
    \/ c.ep = "rulings_by_platform_id" /\ c.args[1] \notin Rulings_Platforms
    \/ c.ep = "catalogs" /\ c.args[1] \notin List_of_Catalogs

\* C12: a call whose arguments fail a precondition (a query shorter than 3
\* characters, a bad identifier, an unrecognized platform or catalog name)
\* raises a validation error, and no rate-limit delay and no request has
\* been issued by that call.
C12_InvalidArgumentsRaiseBeforeAnyRequest ==
    FailsPrecondition(call) =>
        /\ trace = <<>>
        /\ task \in {"start", "raised"}
        /\ task = "raised" => err = "ValueError"

C12_Witness ==
    /\ call.ep = "cards_collection"
    /\ Len(call.args) = 2
    /\ call.args[1] = {"set", "name"}
    /\ call.args[2] = {"collector_number"}
    /\ task = "raised"
    /\ err = "ValueError"

\* the payload pagination_list was given at position i of the trace
Payload(i) == sanitize_data(client_get(server, trace[i].url).body).ret

\* C17: pagination_list applied to a payload with no has_more and no
\* next_page key returns a value equal to its input, for any return_data
\* (null included), and issues no request and no rate-limit delay.
C17_NotPaginatedReturnsInput ==
    \A i \in DOMAIN trace :
        (/\ trace[i].ev = "pagination_list"
         /\ "has_more" \notin DOMAIN Payload(i).v
         /\ "next_page" \notin DOMAIN Payload(i).v) =>
            /\ task = "returned"
            /\ result = Payload(i)
            /\ Len(trace) = i

C17_Witness ==
    /\ task = "returned"
    /\ return_data = Str("data")
    /\ call.ep = "sets"
    /\ server.ndata = MaxData
    /\ server.pages[1].has_more = "absent"
    /\ result = sanitize_data(PageBody(server, 1)).ret

NextPageLink(srv, p) ==
    <<IF srv.pages[p].link = "base" THEN self_url ELSE other_host, sets_path(p + 1)>>

\* the position of the last response before position i of the trace
LastResponseBefore(i) ==
    CHOOSE j \in 1..(i - 1) :
        /\ trace[j].ev = "response"
        /\ \A h \in (j + 1)..(i - 1) : trace[h].ev # "response"

\* C20: every pagination follow-up request is addressed to the resource the
\* most recently received page's next_page link names: the URL requested is
\* the base URL followed by the path left after stripping the base from the
\* link (that is, the link itself), never a URL without the base.
C20_FollowUpAddressedToNextPageLink ==
    \A i \in DOMAIN trace :
        (/\ call \in ListCalls
         /\ trace[i].ev = "request"
         /\ i > 1
         /\ server.pages[trace[LastResponseBefore(i)].page].link # "none") =>
            /\ trace[i].url = NextPageLink(server, trace[LastResponseBefore(i)].page)
            /\ IsAbsolute(trace[i].url)

-----------------------------------------------------------------------------
(* Properties of record construction *)

\* the tag of a sanitized object is a key of the tag table
HasKnownTag(x) ==
    /\ "obj" \in DOMAIN x.v
    /\ x.v["obj"].t = "str"
    /\ x.v["obj"].v \in DOMAIN Object_Map

\* the record class the tag table gives for a sanitized object
TagClass(x) == Object_Map[x.v["obj"].v]

IsRecordClass(cls) == cls # "typing.List"

\* a sanitized object that its variant accepts as it is
WellFormed(x) ==
    /\ isinstance_dict(x)
    /\ HasKnownTag(x)
    /\ IsRecordClass(TagClass(x))
    /\ RequiredFields(TagClass(x)) \subseteq DOMAIN x.v
    /\ DOMAIN x.v \subseteq RequiredFields(TagClass(x)) \cup OptionalFields(TagClass(x))

\* a sanitized object with an unrecognized or missing tag, or without a
\* field its variant requires
Offending(x) ==
    /\ isinstance_dict(x)
    /\ \/ ~HasKnownTag(x)
       \/ IsRecordClass(TagClass(x)) /\ ~(RequiredFields(TagClass(x)) \subseteq DOMAIN x.v)

\* a sanitized object that is well formed except for fields its variant
\* does not declare
HasExtraFields(x) ==
    /\ isinstance_dict(x)
    /\ HasKnownTag(x)
    /\ IsRecordClass(TagClass(x))
    /\ RequiredFields(TagClass(x)) \subseteq DOMAIN x.v
    /\ ~(DOMAIN x.v \subseteq RequiredFields(TagClass(x)) \cup OptionalFields(TagClass(x)))

\* the record with the declared fields of x bound and the others ignored
BindDeclared(cls, x) ==
    Rec(cls, [k \in RequiredFields(cls) \cup OptionalFields(cls) |->
                IF k \in DOMAIN x.v THEN x.v[k] ELSE FieldDefault(cls, k)])

\* the elements of the sanitized list response
SanItems == sanitized.v["data"].v

\* the records of the well-formed elements of `items`, in order
RECURSIVE RecordsOfWellFormed(_)
RecordsOfWellFormed(items) ==
    IF items = <<>> THEN <<>>
    ELSE (IF WellFormed(Head(items))
          THEN <<BindDeclared(TagClass(Head(items)), Head(items))>> ELSE <<>>)
            \o RecordsOfWellFormed(Tail(items))

\* the records of all the elements of `items`, in order
RecordsOfAll(items) ==
    [i \in DOMAIN items |-> BindDeclared(TagClass(items[i]), items[i])]

\* C13: when APIList decodes its data list, an element with an unrecognized
\* or missing obj tag, or without a required field, is silently omitted: no
\* error is raised and every other element is decoded and kept.
C13_OffendingElementsSkipped ==
    (/\ pc = "done"
     /\ call.ep = "sets"
     /\ \A i \in DOMAIN SanItems : WellFormed(SanItems[i]) \/ Offending(SanItems[i])) =>
        /\ record.exc = "none"
        /\ record.rec.v.f["data"] = List(RecordsOfWellFormed(SanItems))

\* C14: a sanitized object with fields its variant does not declare is
\* built into a record with the extra fields ignored and the declared
\* fields bound: a single-object decode returns the record, and such a list
\* element is kept in APIList.data.
C14_ExtraFieldsIgnored ==
    /\ (pc = "done" /\ call \in SingleSetCalls /\ HasExtraFields(sanitized)
           /\ TagClass(sanitized) = "Sets") =>
          /\ record.exc = "none"
          /\ record.rec = BindDeclared("Sets", sanitized)
    /\ (/\ pc = "done"
        /\ call.ep = "sets"
        /\ \A i \in DOMAIN SanItems :
              WellFormed(SanItems[i]) \/ HasExtraFields(SanItems[i])) =>
          /\ record.exc = "none"
          /\ record.rec.v.f["data"] = List(RecordsOfAll(SanItems))

\* C15: decoding a single expected object fails with a decode error whenever
\* the sanitized object's obj tag is missing or is no tag of the tag table;
\* no typed record is returned for such a payload.
C15_SingleDecodeRejectsUnknownTag ==
    (pc = "done" /\ call \in SingleSetCalls /\ ~HasKnownTag(sanitized)) =>
        record.exc # "none"

\* Object_Map[obj](**x) for a sanitized object x
ByTagTable(x) ==
    IF ~HasKnownTag(x) THEN Raised("KeyError")
    ELSE construct_class(TagClass(x), x.v)

\* C16: for each Sets endpoint and single-page response r the value returned
\* equals Object_Map[obj](**sanitize(r)); a response tagged "set" yields a
\* Sets record whose api_id is the raw "id", a response tagged "list" a list
\* record whose data elements are Sets records in response order.
C16_EndpointAgreesWithTagTable ==
    pc = "done" =>
        /\ record = ByTagTable(sanitized)
        /\ (call \in SingleSetCalls /\ WellFormed(sanitized)
               /\ sanitized.v["obj"] = Str("set")) =>
              /\ record.exc = "none"
              /\ record.rec.v.cls = "Sets"
              /\ record.rec.v.f["api_id"] = data0.v["id"]
        /\ (/\ call.ep = "sets"
            /\ \A i \in DOMAIN SanItems :
                  WellFormed(SanItems[i]) /\ SanItems[i].v["obj"] = Str("set")) =>
              /\ record.exc = "none"
              /\ record.rec.v.cls = "APIList"
              /\ record.rec.v.f["data"] = List(RecordsOfWellFormed(SanItems))

-----------------------------------------------------------------------------
(* Properties of concurrent fetches *)

MaxTurns == 3 * (MaxRequests + 2)   \* turns one fetch can take

\* the locals of a fetch run alone, without any other coroutine, for at most
\* n turns
RECURSIVE RunAlone(_, _, _, _)
RunAlone(l, srv, self, n) ==
    IF n = 0 \/ ~can_step(l) THEN l
    ELSE RunAlone(fetch_step(l, srv, self), srv, self, n - 1)

Alone(srv, rd) == RunAlone(Local0(rd), srv, ScryfallConnection, MaxTurns)

Ended(l) == l.task \in {"returned", "raised"}

\* C18: with several fetches in flight on one connection, the configuration
\* (base URL, platform list, rate-limit delay) is the same in every state,
\* and every fetch that has ended has the result (or the exception) it has
\* when it runs alone against the same responses, having made the same
\* requests; no page of another fetch is in its accumulator.
C18_ConcurrentFetchesIndependent ==
    /\ conn = ScryfallConnection
    /\ \A t \in Tasks :
          Ended(fetches[t]) =>
              LET solo == Alone(server, fetches[t].return_data)
              IN /\ fetches[t].task = solo.task
                 /\ fetches[t].result = solo.result
                 /\ fetches[t].err = solo.err
                 /\ fetches[t].trace = solo.trace

\* One paginated fetch has returned two pages or more while another fetch
\* on the same connection is in flight inside its own pagination loop,
\* holding pages in its accumulator.
C18_Witness ==
    \E t, u \in Tasks :
        /\ t # u
        /\ fetches[t].task = "returned"
        /\ fetches[t].in_loop
        /\ Len(fetches[t].result.v["data"].v) >= 2
        /\ fetches[u].task \in {"sleeping", "sending"}
        /\ fetches[u].in_loop
        /\ NumEvents(fetches[u].trace, "response") >= 1

-----------------------------------------------------------------------------
(* Properties of failures inside the pagination loop *)

\* C21: when a follow-up request of the pagination loop is answered with a
\* status >= 400 after pages were accumulated, the fetch raises
\* HTTPStatusError, returns nothing (neither the accumulated pages nor a
\* default), and builds no request after the failed one: the failed URL was
\* requested once and no further page is asked for.
C21_FollowUpErrorPropagates ==
    \A i \in DOMAIN trace :
        (in_loop /\ trace[i].ev = "response" /\ trace[i].status >= 400) =>
            /\ task = "raised"
            /\ err = "HTTPStatusError"
            /\ result = None
            /\ \A j \in DOMAIN trace :
                  j > i => trace[j].ev \notin {"request", "sleep", "response"}
            /\ Cardinality({j \in DOMAIN trace :
                               trace[j].ev = "request" /\ trace[j].url = trace[i].url}) = 1

\* A follow-up was answered with an error status while the accumulator held
\* the elements of the pages fetched before it.
C21_Witness ==
    /\ in_loop
    /\ task = "raised"
    /\ returnable.t = "map"
    /\ Len(returnable.v["data"].v) >= 1
    /\ \E i \in DOMAIN trace :
          /\ trace[i].ev = "response"
          /\ trace[i].status >= 400
          /\ \E h \in 1..(i - 1) : trace[h].ev = "response" /\ trace[h].status = 200

-----------------------------------------------------------------------------
(* Frame of the pagination loop *)

\* the sanitized first page as get_json handed it to pagination_list
FirstPage == sanitize_data(PageBody(server, 1)).ret

\* C23: after accumulating K > 1 pages the returned object is the first
\* page's object (the accumulator), changed in its return_data collection
\* only: every other field holds the first page's value, so has_more is
\* still true (where the first page said true) and next_page still the link
\* to page 2, not the last page's.
C23_OnlyCollectionOfFirstPageChanges ==
    (call \in ListCalls /\ task = "returned" /\ in_loop) =>
        /\ result = returnable
        /\ DOMAIN result.v = DOMAIN FirstPage.v
        /\ \A k \in DOMAIN FirstPage.v \ {return_data.v} : result.v[k] = FirstPage.v[k]
        /\ server.pages[1].has_more = "true" => result.v["has_more"] = Bool(TRUE)
        /\ result.v["next_page"] = PageBody(server, 1).v["next_page"]
        /\ result.v["next_page"].v[2] = sets_path(2)
        /\ Len(result.v[return_data.v].v) >= Len(FirstPage.v[return_data.v].v)

\* Three pages were accumulated; the last one has has_more = false and a
\* next_page of its own, the result holds more elements than the first page.
C23_Witness ==
    /\ call \in ListCalls
    /\ task = "returned"
    /\ in_loop
    /\ NumEvents(trace, "response") = 3
    /\ server.pages[3].has_more = "false"
    /\ server.pages[3].link # "none"
    /\ Len(result.v["data"].v) > Len(FirstPage.v["data"].v)
    /\ has_more = Bool(FALSE)
    /\ server.pages[1].has_more = "true"
    /\ result.v["has_more"] = Bool(TRUE)
    /\ result.v["next_page"] # PageBody(server, 3).v["next_page"]

-----------------------------------------------------------------------------
(* Addresses of the requests *)

\* the request an endpoint method issues is the first event of its fetch
EndpointRequest == IF trace # <<>> /\ trace[1].ev = "request" THEN trace[1].url ELSE <<>>

\* C24: every request issued on behalf of an endpoint method (GET endpoints,
\* the POST of cards_collection, bulk_data) is addressed to the base URL
\* followed by the endpoint path: the base URL occurs exactly once, at the
\* front, and the path follows its final "/" without a second "/".
C24_BaseUrlOnceThenPath ==
    EndpointRequest # <<>> =>
        /\ Len(EndpointRequest) = 2
        /\ EndpointRequest[1] = self_url
        /\ EndpointRequest[2] \notin Hosts \cup {Slash}

====
